---------------------------- MODULE Spec2Model ----------------------------
(***************************************************************************)
(* futures-native-timers: Delay, Interval and Timeout over the native      *)
(* timer of each operating system.                                         *)
(*                                                                         *)
(* One timer object (a Delay, an Interval, or the Delay inside a Timeout)  *)
(* is modelled together with the three execution contexts that touch it:   *)
(*   - the polling task   (Delay::poll, Interval::poll_next, Timeout::poll)*)
(*   - the OS callback    (handler / timer_callback)                       *)
(*   - the dropping owner (impl Drop for NativeTimer, then the cell)       *)
(* Every access to the shared TimerState is a step of its own, so that TLC *)
(* explores every interleaving of a poll with a callback and with a drop.  *)
(*                                                                         *)
(* Time is in nanoseconds (the resolution of std::time::Duration).  It     *)
(* advances from one OS due moment to the next; a callback that runs late  *)
(* is a callback step taken later in the interleaving.                     *)
(***************************************************************************)
EXTENDS Integers, FiniteSets, Sequences, TLC

(***************************************************************************)
(* Bounds of the model.                                                    *)
(***************************************************************************)
\* OS expiries delivered to one timer
MaxExpiries == 2
\* distinct wake capabilities the executor hands to poll
NumWakers == 2

(***************************************************************************)
(* Program constants.                                                      *)
(***************************************************************************)
\* Duration::as_secs / Duration::subsec_nanos
NanosPerSec == 1000000000
\* windows.rs: subsec_nanos() / 100
WinTickNanos == 100
\* windows.rs: as_secs() * 10_000_000
WinTicksPerSec == 10000000
\* windows.rs: ticks / 10_000
WinTicksPerMilli == 10000
\* msPeriod of SetThreadpoolTimerEx is in milliseconds
NanosPerMilli == 1000000

Backends == {"linux", "macos", "windows"}
Kinds    == {"delay", "interval", "timeout"}
Wakers   == 1..NumWakers
NoWaker  == 0

\* The durations a caller constructs a timer with, in nanoseconds: zero,
\* below one 100 ns tick and a half, one millisecond, one and a half.
Durations == {0, 150, 1000000, 1500000}

(***************************************************************************)
(* std::time::Duration accessors.                                          *)
(***************************************************************************)
as_secs(d)      == d \div NanosPerSec
subsec_nanos(d) == d % NanosPerSec
as_nanos(d)     == d

(***************************************************************************)
(* What the OS holds for a timer after an arming call: whether an expiry   *)
(* is scheduled, how far away it is, and the repeat period (0: one-shot).  *)
(***************************************************************************)
OsTimer(a, due, rep) == [armed |-> a, due |-> due, repeat |-> rep]
Disarmed == OsTimer(FALSE, 0, 0)

\* ---- Linux: timer_settime over timespec ---------------------------------
timespec(d)  == [tv_sec |-> as_secs(d), tv_nsec |-> subsec_nanos(d)]
ZeroTimespec == [tv_sec |-> 0, tv_nsec |-> 0]
TimespecNanos(ts) == ts.tv_sec * NanosPerSec + ts.tv_nsec
\* Option<timespec>
None    == [is_some |-> FALSE, value |-> ZeroTimespec]
Some(x) == [is_some |-> TRUE, value |-> x]

\* timer_settime(2): an it_value of zero disarms the timer; otherwise the
\* timer expires it_value from now and then every it_interval (0: once).
timer_settime(new_value) ==
    IF new_value.it_value = ZeroTimespec
    THEN Disarmed
    ELSE OsTimer(TRUE, TimespecNanos(new_value.it_value),
                 TimespecNanos(new_value.it_interval))

LinuxInit(start, repeat) ==
    LET rep == IF repeat.is_some THEN repeat.value ELSE ZeroTimespec
    IN  timer_settime([it_interval |-> rep, it_value |-> start])

LinuxInitDelay(d)    == LinuxInit(timespec(d), None)
LinuxInitInterval(d) == LinuxInit(timespec(d), Some(timespec(d)))

\* ---- Windows: SetThreadpoolTimerEx over 100 ns ticks --------------------
WinTicks(d) == (subsec_nanos(d) \div WinTickNanos) + as_secs(d) * WinTicksPerSec

\* SetThreadpoolTimerEx: a negative (or zero) due time is relative to now,
\* in 100 ns units; msPeriod is the repeat period in milliseconds, 0 for a
\* timer that is signalled once.
SetThreadpoolTimerEx(pftDueTime, msPeriod) ==
    OsTimer(TRUE, (0 - pftDueTime) * WinTickNanos, msPeriod * NanosPerMilli)

WinInit(start, repeat) == SetThreadpoolTimerEx(start, repeat)

WinInitDelay(d) ==
    LET ticks == WinTicks(d)
    IN  WinInit(0 - ticks, 0)

WinInitInterval(d) ==
    LET ticks  == WinTicks(d)
        millis == ticks \div WinTicksPerMilli
    IN  WinInit(0 - ticks, millis)

\* ---- macOS: dispatch_source_set_timer over nanoseconds ------------------
\* The source fires start from now and then every interval; libdispatch
\* keeps 0 for "disabled" and turns an interval of 0 into a 1 ns timer (a
\* one-shot timer is asked for with DISPATCH_TIME_FOREVER).
dispatch_source_set_timer(start, interval) ==
    OsTimer(TRUE, start, IF interval = 0 THEN 1 ELSE interval)

MacInitDelay(d)    == dispatch_source_set_timer(as_nanos(d), 0)
MacInitInterval(d) == dispatch_source_set_timer(as_nanos(d), as_nanos(d))

\* NativeTimer::init_delay / init_interval of the backend compiled in.
init_delay(b, d) ==
    CASE b = "linux"   -> LinuxInitDelay(d)
      [] b = "windows" -> WinInitDelay(d)
      [] b = "macos"   -> MacInitDelay(d)

init_interval(b, d) ==
    CASE b = "linux"   -> LinuxInitInterval(d)
      [] b = "windows" -> WinInitInterval(d)
      [] b = "macos"   -> MacInitInterval(d)

(***************************************************************************)
(* State.                                                                  *)
(***************************************************************************)
VARIABLES
    backend,      \* the sys/ module compiled in
    kind,         \* which primitive owns the Timer
    duration,     \* Delay.delay / Interval.interval / the timeout
    active,       \* NativeTimer.active
    done,         \* Delay.done
    state_done,   \* TimerState: the expiry flag (set_done / is_done)
    wake,         \* TimerState.wake: the registered waker, or NoWaker
    os,           \* the OS timer: [armed, due, repeat], due counting down
    elapsed,      \* time passed since the arming call
    cbPc,         \* the OS callback: idle, queued, set (ran set_done), ...
    nCallbacks,   \* callback invocations that have run set_done(true)
    pollPc,       \* position of the poll in progress
    pollWaker,    \* the waker handed to the poll in progress / last poll
    pollResult,   \* what the last poll returned
    sawDone,      \* Interval::poll_next: what is_done() returned
    nReady,       \* polls of the Interval that returned Ready(Some(_))
    sinceReady,   \* callbacks that ran since the last Ready(Some(_))
    invoked,      \* wakers invoked since they were last registered
    futureReady,  \* Timeout.future: whether the wrapped future is ready
    polled,       \* Timeout::poll: the sub-polls of this poll, in order
    delayResult,  \* Timeout::poll: what self.delay().poll(w) returned
    futureResult, \* Timeout::poll: what self.future().poll(w) returned
    dropPc,       \* position of the drop of the Timer
    uaf,          \* a callback touched the TimerState after it was freed
    nInits,       \* calls of init_delay / init_interval so far
    handle,       \* the OS timer object of the NativeTimer
    suspended,    \* macos: the dispatch source is suspended
    resumes,      \* macos: calls of dispatch_resume so far
    registered,   \* the wakers handed to register_waker so far
    strong,       \* strong count of the Arc holding the TimerState
    timers,       \* RaceSpec: the Delays running side by side
    order         \* RaceSpec: the Delays in the order they returned Ready

vars == <<backend, kind, duration, active, done, state_done, wake, os,
          elapsed, cbPc, nCallbacks, pollPc, pollWaker, pollResult, sawDone,
          nReady, sinceReady, invoked, futureReady, polled, delayResult,
          futureResult, dropPc, uaf, nInits, handle, suspended, resumes,
          registered, strong, timers, order>>

raceVars == <<timers, order>>
cfgVars  == <<backend, kind, duration>>
toVars   == <<polled, delayResult, futureResult>>
osVars   == <<nInits, handle, suspended, resumes, strong>>

\* Arc::new(TimerState::new()): one owner.
Arc_new == 1
\* Arc::into_raw and Arc::from_raw hand the one ownership to a raw pointer
\* and back; neither changes the strong count.
Arc_into_raw(n) == n
Arc_from_raw(n) == n

\* Faulty variant of Timer_new: the backend keeps an owning clone of the Arc.
Timer_new_Cloned == Arc_new + 1

\* Timer::new: the strong count of state once the Timer is built; the
\* NativeTimer got the raw pointer only.
Timer_new == Arc_from_raw(Arc_into_raw(Arc_new))

\* Faulty variant of NativeTimer_new: no OS timer object until the first poll.
NativeTimer_new_Lazy == "none"

\* NativeTimer::new, called by Timer::new: timer_create /
\* CreateThreadpoolTimer / dispatch_source_create (with the handler and the
\* context set) give the OS timer object, unarmed.  "none": no object;
\* "closed": deleted, closed or released.
NativeTimer_new == "open"

\* The fields after Timer::new (NativeTimer::new creates the OS timer,
\* unarmed) and Delay::new / Interval::new / FutureExt::timeout.  A dispatch
\* source is created suspended.
Unpolled ==
    /\ nInits = 0
    /\ handle = NativeTimer_new
    /\ suspended = (backend = "macos")
    /\ resumes = 0
    /\ registered = {}
    /\ strong = Timer_new
    /\ active = FALSE
    /\ done = FALSE
    /\ state_done = FALSE
    /\ wake = NoWaker
    /\ os = Disarmed
    /\ elapsed = 0
    /\ cbPc = "idle"
    /\ nCallbacks = 0
    /\ pollPc = "idle"
    /\ pollWaker = NoWaker
    /\ pollResult = "none"
    /\ sawDone = FALSE
    /\ nReady = 0
    /\ sinceReady = 0
    /\ invoked = {}
    /\ futureReady = FALSE
    /\ polled = <<>>
    /\ delayResult = "none"
    /\ futureResult = "none"
    /\ dropPc = "live"
    /\ uaf = FALSE

\* Nothing runs side by side in the specification of one timer.
NoRace == timers = <<>> /\ order = <<>>

Init ==
    /\ backend \in Backends
    /\ kind \in Kinds
    /\ duration \in Durations
    /\ Unpolled
    /\ NoRace

(***************************************************************************)
(* The polling task.                                                       *)
(***************************************************************************)
\* A Timeout that has resolved is not polled again.
Resolved == kind = "timeout" /\ pollResult \in {"Ok", "Err"}

\* The executor calls poll with the waker w.
PollStart(w) ==
    /\ pollPc = "idle"
    /\ dropPc = "live"
    /\ ~Resolved
    /\ pollPc' = "arm"
    /\ pollWaker' = w
    /\ polled' = <<>>
    /\ delayResult' = "none"
    /\ futureResult' = "none"
    /\ UNCHANGED <<cfgVars, raceVars, osVars, registered, active, done,
                   state_done, wake, os, elapsed, cbPc,
                   nCallbacks, pollResult, sawDone, nReady, sinceReady,
                   invoked, futureReady, dropPc, uaf>>

Poll == \E w \in Wakers : PollStart(w)

\* Faulty variant of PollArm: every poll arms the timer anew.
PollArmEveryPoll ==
    /\ pollPc = "arm"
    /\ os' = IF kind = "interval"
             THEN init_interval(backend, duration)
             ELSE init_delay(backend, duration)
    /\ active' = TRUE
    /\ elapsed' = 0
    /\ nInits' = nInits + 1
    /\ IF backend = "macos"
       THEN suspended' = FALSE /\ resumes' = resumes + 1
       ELSE UNCHANGED <<suspended, resumes>>
    /\ pollPc' = "register"
    /\ UNCHANGED <<cfgVars, raceVars, registered, handle, strong, done,
                   state_done,
                   wake, cbPc,
                   nCallbacks, pollWaker, pollResult, sawDone, nReady,
                   sinceReady, invoked, futureReady, toVars, dropPc, uaf>>

\* if !self.inner.is_active() { self.inner.handle.init_delay(delay) }
\* (init_interval for an Interval); init sets active and programs the OS
\* (macos: dispatch_source_set_timer, then dispatch_resume).
PollArm ==
    /\ pollPc = "arm"
    /\ IF ~active
       THEN /\ os' = IF kind = "interval"
                     THEN init_interval(backend, duration)
                     ELSE init_delay(backend, duration)
            /\ active' = TRUE
            /\ elapsed' = 0
            /\ nInits' = nInits + 1
            /\ IF backend = "macos"
               THEN suspended' = FALSE /\ resumes' = resumes + 1
               ELSE UNCHANGED <<suspended, resumes>>
       ELSE UNCHANGED <<os, active, elapsed, nInits, suspended, resumes>>
    /\ pollPc' = "register"
    /\ UNCHANGED <<cfgVars, raceVars, registered, handle, strong, done,
                   state_done,
                   wake, cbPc, nCallbacks,
                   pollWaker, pollResult, sawDone, nReady, sinceReady,
                   invoked, futureReady, toVars, dropPc, uaf>>

\* Faulty variant of PollRegister: the slot keeps the waker registered first.
PollRegisterOnce ==
    /\ pollPc = "register"
    /\ wake' = IF wake = NoWaker THEN pollWaker ELSE wake
    /\ registered' = registered \cup {pollWaker}
    /\ invoked' = invoked \ {pollWaker}
    /\ pollPc' = "check"
    /\ UNCHANGED <<cfgVars, raceVars, osVars, active, done, state_done, os,
                   elapsed,
                   cbPc, nCallbacks, pollWaker, pollResult, sawDone, nReady,
                   sinceReady, futureReady, toVars, dropPc, uaf>>

\* self.inner.register_waker(lw): the slot is overwritten.
PollRegister ==
    /\ pollPc = "register"
    /\ wake' = pollWaker
    /\ registered' = registered \cup {pollWaker}
    /\ invoked' = invoked \ {pollWaker}
    /\ pollPc' = "check"
    /\ UNCHANGED <<cfgVars, raceVars, osVars, active, done, state_done, os,
                   elapsed, cbPc,
                   nCallbacks, pollWaker, pollResult, sawDone, nReady,
                   sinceReady, futureReady, toVars, dropPc, uaf>>

\* Faulty variant of DelayCheck: the Delay is marked terminated by any poll.
DelayCheckSetsDone ==
    /\ pollPc = "check"
    /\ kind = "delay"
    /\ sawDone' = state_done
    /\ done' = TRUE
    /\ pollResult' = IF state_done THEN "Ready" ELSE "Pending"
    /\ pollPc' = "idle"
    /\ UNCHANGED <<cfgVars, raceVars, osVars, registered, active, state_done,
                   wake, os,
                   elapsed, cbPc, nCallbacks, pollWaker, nReady, sinceReady,
                   invoked, futureReady, toVars, dropPc, uaf>>

\* Delay::poll: if self.inner.is_done() { self.done = true; Poll::Ready(()) }
\*              else { Poll::Pending }
DelayCheck ==
    /\ pollPc = "check"
    /\ kind = "delay"
    /\ sawDone' = state_done
    /\ done' = (done \/ state_done)
    /\ pollResult' = IF state_done THEN "Ready" ELSE "Pending"
    /\ pollPc' = "idle"
    /\ UNCHANGED <<cfgVars, raceVars, osVars, registered, active, state_done,
                   wake, os, elapsed,
                   cbPc, nCallbacks, pollWaker, nReady, sinceReady, invoked,
                   futureReady, toVars, dropPc, uaf>>

\* Faulty variant of TimeoutCheck: the wrapped future is polled whatever the Delay
\* returned.
TimeoutCheckPollsFuture ==
    /\ pollPc = "check"
    /\ kind = "timeout"
    /\ sawDone' = state_done
    /\ done' = (done \/ state_done)
    /\ polled' = Append(polled, "delay")
    /\ delayResult' = IF state_done THEN "Ready" ELSE "Pending"
    /\ pollResult' = pollResult
    /\ pollPc' = "future"
    /\ UNCHANGED <<cfgVars, raceVars, osVars, registered, active, state_done,
                   wake, os, elapsed,
                   cbPc, nCallbacks, pollWaker, nReady, sinceReady, invoked,
                   futureReady, futureResult, dropPc, uaf>>

\* Timeout::poll: if let Poll::Ready(_) = self.as_mut().delay().poll(w)
\*                { Poll::Ready(Err(TimeoutError)) } else { poll the future }
\* (the step is the check that ends the Delay's poll).
TimeoutCheck ==
    /\ pollPc = "check"
    /\ kind = "timeout"
    /\ sawDone' = state_done
    /\ done' = (done \/ state_done)
    /\ polled' = Append(polled, "delay")
    /\ delayResult' = IF state_done THEN "Ready" ELSE "Pending"
    /\ IF state_done
       THEN pollResult' = "Err" /\ pollPc' = "idle"
       ELSE pollResult' = pollResult /\ pollPc' = "future"
    /\ UNCHANGED <<cfgVars, raceVars, osVars, registered, active, state_done,
                   wake, os, elapsed,
                   cbPc, nCallbacks, pollWaker, nReady, sinceReady, invoked,
                   futureReady, futureResult, dropPc, uaf>>

\* Interval::poll_next: if self.inner.is_done() { ... } else { Poll::Pending }
\* set_done(false) is a second access to the cell: the next step.
IntervalCheck ==
    /\ pollPc = "check"
    /\ kind = "interval"
    /\ sawDone' = state_done
    /\ IF state_done
       THEN pollResult' = pollResult /\ pollPc' = "reset"
       ELSE pollResult' = "Pending" /\ pollPc' = "idle"
    /\ UNCHANGED <<cfgVars, raceVars, osVars, registered, active, done,
                   state_done, wake, os,
                   elapsed, cbPc, nCallbacks, pollWaker, nReady, sinceReady,
                   invoked, futureReady, toVars, dropPc, uaf>>

\* Faulty variant of PollReset: expiries are queued, each poll takes one.
PollResetQueued ==
    /\ pollPc = "reset"
    /\ state_done' = (sinceReady > 1)
    /\ pollResult' = "Ready"
    /\ nReady' = nReady + 1
    /\ sinceReady' = IF sinceReady > 0 THEN sinceReady - 1 ELSE 0
    /\ pollPc' = "idle"
    /\ UNCHANGED <<cfgVars, raceVars, osVars, registered, active, done, wake,
                   os, elapsed,
                   cbPc, nCallbacks, pollWaker, sawDone, invoked, futureReady,
                   toVars, dropPc, uaf>>

\* Faulty variant of PollReset: the flag is not cleared.
PollResetKeepsFlag ==
    /\ pollPc = "reset"
    /\ state_done' = state_done
    /\ pollResult' = "Ready"
    /\ nReady' = nReady + 1
    /\ sinceReady' = 0
    /\ pollPc' = "idle"
    /\ UNCHANGED <<cfgVars, raceVars, osVars, registered, active, done, wake,
                   os, elapsed, cbPc,
                   nCallbacks, pollWaker, sawDone, invoked, futureReady,
                   toVars, dropPc, uaf>>

\* Interval: self.inner.state.set_done(false); Poll::Ready(Some(Instant::now()))
PollReset ==
    /\ pollPc = "reset"
    /\ state_done' = FALSE
    /\ pollResult' = "Ready"
    /\ nReady' = nReady + 1
    /\ sinceReady' = 0
    /\ pollPc' = "idle"
    /\ UNCHANGED <<cfgVars, raceVars, osVars, registered, active, done, wake,
                   os, elapsed, cbPc, nCallbacks,
                   pollWaker, sawDone, invoked, futureReady, toVars, dropPc,
                   uaf>>

\* Timeout: self.as_mut().future().poll(w).map(Ok)
PollFuture ==
    /\ pollPc = "future"
    /\ polled' = Append(polled, "future")
    /\ futureResult' = IF futureReady THEN "Ready" ELSE "Pending"
    /\ pollResult' = IF futureReady THEN "Ok" ELSE "Pending"
    /\ pollPc' = "idle"
    /\ UNCHANGED <<cfgVars, raceVars, osVars, registered, active, done,
                   state_done, wake, os, elapsed, cbPc,
                   nCallbacks, pollWaker, sawDone, nReady, sinceReady,
                   invoked, futureReady, delayResult, dropPc, uaf>>

\* The wrapped future becomes ready (its own business, any time).
FutureCompletes ==
    /\ kind = "timeout"
    /\ ~futureReady
    /\ dropPc = "live"
    /\ futureReady' = TRUE
    /\ UNCHANGED <<cfgVars, raceVars, osVars, registered, active, done,
                   state_done, wake, os, elapsed, cbPc,
                   nCallbacks, pollPc, pollWaker, pollResult, sawDone, nReady,
                   sinceReady, invoked, toVars, dropPc, uaf>>

\* impl FusedFuture for Delay: fn is_terminated(&self) -> bool { self.done }
Delay_is_terminated == done

\* Faulty variant of Interval_is_terminated: terminated once a tick was produced.
Interval_is_terminated_AfterTick == nReady > 0

\* impl FusedStream for Interval: fn is_terminated(&self) -> bool { false }
Interval_is_terminated == FALSE

(***************************************************************************)
(* The operating system: time, expiry, and the callback it runs.           *)
(***************************************************************************)
\* Time passes until the armed timer is due.
Advance ==
    /\ os.armed
    /\ os.due > 0
    /\ elapsed' = elapsed + os.due
    /\ os' = [os EXCEPT !.due = 0]
    /\ UNCHANGED <<cfgVars, raceVars, osVars, registered, active, done,
                   state_done, wake, cbPc, nCallbacks,
                   pollPc, pollWaker, pollResult, sawDone, nReady, sinceReady,
                   invoked, futureReady, toVars, dropPc, uaf>>

\* The timer is due: the OS queues one invocation of the callback (a signal
\* for the handler, a work item for the dispatch queue or the thread pool)
\* and re-arms a repeating timer.  One invocation at a time per timer.
Expire ==
    /\ os.armed
    /\ os.due = 0
    /\ cbPc = "idle"
    /\ nCallbacks < MaxExpiries
    /\ cbPc' = "queued"
    /\ os' = IF os.repeat > 0 THEN [os EXCEPT !.due = os.repeat] ELSE Disarmed
    /\ UNCHANGED <<cfgVars, raceVars, osVars, registered, active, done,
                   state_done, wake, elapsed,
                   nCallbacks, pollPc, pollWaker, pollResult, sawDone, nReady,
                   sinceReady, invoked, futureReady, toVars, dropPc, uaf>>

\* TimerState.wake.wake(): the registered waker, if any, is invoked.  (The
\* handlers are written against a TimerState with set_done and an atomic
\* waker slot; each of its operations is one atomic access to the cell.)
TimerState_wake(slot, inv) ==
    IF slot = NoWaker THEN inv ELSE inv \cup {slot}

\* handler / timer_callback is entered on the OS-chosen thread:
\* let state = context as *mut TimerState;
CbEnter ==
    /\ cbPc = "queued"
    /\ cbPc' = "running"
    /\ UNCHANGED <<cfgVars, raceVars, osVars, registered, active, done,
                   state_done, wake, os, elapsed,
                   nCallbacks, pollPc, pollWaker, pollResult, sawDone, nReady,
                   sinceReady, invoked, futureReady, toVars, dropPc, uaf>>

\* (*state).set_done(true);
CbSetDone ==
    /\ cbPc = "running"
    /\ cbPc' = "wake"
    /\ nCallbacks' = nCallbacks + 1
    /\ IF dropPc = "freed"
       THEN uaf' = TRUE /\ UNCHANGED <<state_done, sinceReady>>
       ELSE /\ state_done' = TRUE
            /\ sinceReady' = sinceReady + 1
            /\ UNCHANGED uaf
    /\ UNCHANGED <<cfgVars, raceVars, osVars, registered, active, done, wake,
                   os, elapsed, pollPc,
                   pollWaker, pollResult, sawDone, nReady, invoked,
                   futureReady, toVars, dropPc>>

\* (*state).wake.wake();
CbWake ==
    /\ cbPc = "wake"
    /\ cbPc' = "idle"
    /\ IF dropPc = "freed"
       THEN uaf' = TRUE /\ UNCHANGED invoked
       ELSE /\ invoked' = TimerState_wake(wake, invoked)
            /\ UNCHANGED uaf
    /\ UNCHANGED <<cfgVars, raceVars, osVars, registered, active, done,
                   state_done, wake, os, elapsed,
                   nCallbacks, pollPc, pollWaker, pollResult, sawDone, nReady,
                   sinceReady, futureReady, toVars, dropPc>>

(***************************************************************************)
(* Drop of the Timer: the handle (impl Drop for NativeTimer) and then the  *)
(* Arc holding the TimerState, in the order the fields are declared.       *)
(***************************************************************************)
dropUnchanged == <<cfgVars, raceVars, nInits, registered, active, done,
                   state_done, wake, elapsed, nCallbacks, pollPc, pollWaker,
                   pollResult, sawDone, nReady, sinceReady, invoked,
                   futureReady, toVars, uaf>>

\* The owner lets go of the Delay / Interval / Timeout (never inside a poll,
\* which borrows it).
DropStart ==
    /\ dropPc = "live"
    /\ pollPc = "idle"
    /\ dropPc' = CASE backend = "linux"   -> "delete"
                  [] backend = "windows" -> "disarm"
                  [] backend = "macos"   -> "resume"
    /\ UNCHANGED <<dropUnchanged, strong, handle, suspended, resumes, os, cbPc>>

\* linux: timer_delete(self.inner).  No later expiry; a signal already
\* queued stays queued and a handler already running keeps running.
LinuxDelete ==
    /\ dropPc = "delete"
    /\ os' = Disarmed
    /\ handle' = "closed"
    /\ dropPc' = "cell"
    /\ UNCHANGED <<dropUnchanged, strong, suspended, resumes, cbPc>>

\* windows: SetThreadpoolTimerEx(self.inner, null, 0, 0)
WinDisarm ==
    /\ dropPc = "disarm"
    /\ os' = Disarmed
    /\ dropPc' = "wait"
    /\ UNCHANGED <<dropUnchanged, strong, handle, suspended, resumes, cbPc>>

\* Faulty variant of WinWait: the wait returns at once and cancels nothing.
WinWaitNoBlock ==
    /\ dropPc = "wait"
    /\ dropPc' = "close"
    /\ UNCHANGED <<dropUnchanged, strong, handle, suspended, resumes, os, cbPc>>

\* windows: WaitForThreadpoolTimerCallbacks(self.inner, TRUE) cancels the
\* callbacks that have not started and blocks until the running one ends.
WinWait ==
    /\ dropPc = "wait"
    /\ cbPc \in {"idle", "queued"}
    /\ cbPc' = "idle"
    /\ dropPc' = "close"
    /\ UNCHANGED <<dropUnchanged, strong, handle, suspended, resumes, os>>

\* windows: CloseThreadpoolTimer(self.inner)
WinClose ==
    /\ dropPc = "close"
    /\ handle' = "closed"
    /\ dropPc' = "cell"
    /\ UNCHANGED <<dropUnchanged, strong, suspended, resumes, os, cbPc>>

\* Faulty variant of MacResume: drop resumes the source whether armed or not.
MacResumeAlways ==
    /\ dropPc = "resume"
    /\ suspended' = FALSE
    /\ resumes' = resumes + 1
    /\ dropPc' = "release"
    /\ UNCHANGED <<dropUnchanged, strong, handle, os, cbPc>>

\* macos: if !self.active { dispatch_resume(self.timer) }
MacResume ==
    /\ dropPc = "resume"
    /\ IF ~active
       THEN suspended' = FALSE /\ resumes' = resumes + 1
       ELSE UNCHANGED <<suspended, resumes>>
    /\ dropPc' = "release"
    /\ UNCHANGED <<dropUnchanged, strong, handle, os, cbPc>>

\* macos: dispatch_release(self.timer).  The source fires no more; a handler
\* already submitted to the queue still runs.
MacRelease ==
    /\ dropPc = "release"
    /\ os' = Disarmed
    /\ handle' = "closed"
    /\ dropPc' = "cell"
    /\ UNCHANGED <<dropUnchanged, strong, suspended, resumes, cbPc>>

\* The Arc<TimerState> of the Timer goes: the strong count drops by one, and
\* at zero the cell's memory is released ("kept": another owner is left).
ReleaseCell ==
    /\ dropPc = "cell"
    /\ strong' = strong - 1
    /\ dropPc' = IF strong' = 0 THEN "freed" ELSE "kept"
    /\ UNCHANGED <<dropUnchanged, handle, suspended, resumes, os, cbPc>>

(***************************************************************************)
(* Specifications.                                                         *)
(***************************************************************************)
Next ==
    \/ Poll
    \/ PollArm
    \/ PollRegister
    \/ DelayCheck
    \/ TimeoutCheck
    \/ IntervalCheck
    \/ PollReset
    \/ PollFuture
    \/ FutureCompletes
    \/ Advance
    \/ Expire
    \/ CbEnter
    \/ CbSetDone
    \/ CbWake
    \/ DropStart
    \/ LinuxDelete
    \/ WinDisarm
    \/ WinWait
    \/ WinClose
    \/ MacResume
    \/ MacRelease
    \/ ReleaseCell

Spec == Init /\ [][Next]_vars

\* The executor re-polls a task whose waker was invoked, polls a new task,
\* and a stream's consumer asks for the next item after each one.
Woken ==
    \/ pollResult = "none"
    \/ pollWaker \in invoked
    \/ kind = "interval" /\ pollResult = "Ready"

PollWhenWoken == Woken /\ Poll

\* A poll runs to its return; time passes; the OS delivers a due expiry and
\* its callback runs to its end; the executor polls a woken task.
FairSpec ==
    /\ Spec
    /\ WF_vars(PollWhenWoken)
    /\ WF_vars(PollArm)
    /\ WF_vars(PollRegister)
    /\ WF_vars(DelayCheck)
    /\ WF_vars(TimeoutCheck)
    /\ WF_vars(IntervalCheck)
    /\ WF_vars(PollReset)
    /\ WF_vars(PollFuture)
    /\ WF_vars(Advance)
    /\ WF_vars(Expire)
    /\ WF_vars(CbEnter)
    /\ WF_vars(CbSetDone)
    /\ WF_vars(CbWake)

(***************************************************************************)
(* Several Delays side by side (join!, select!, tasks of a thread pool).   *)
(* All are first polled at the same moment; scheduling is prompt: a due    *)
(* callback runs and a woken task is polled before time moves on.          *)
(***************************************************************************)
\* Delays running side by side
NumDelays == 2
Delays == 1..NumDelays

\* Delay::new(d) for each Delay, with pairwise distinct durations.
NewDelay(d) ==
    [delay |-> d, active |-> FALSE, done |-> FALSE, state_done |-> FALSE,
     os |-> Disarmed, cbPc |-> "idle", nCallbacks |-> 0, woken |-> TRUE]

RaceInit ==
    /\ backend \in Backends
    /\ kind = "delay"
    /\ duration = 0
    /\ Unpolled
    /\ \E ds \in [Delays -> Durations] :
          /\ \A i, j \in Delays : i # j => ds[i] # ds[j]
          /\ timers = [i \in Delays |-> NewDelay(ds[i])]
    /\ order = <<>>

\* The single-timer state plays no part here.
raceUnchanged == <<backend, kind, duration, active, done, state_done, wake,
                   os, elapsed, cbPc, nCallbacks, pollPc, pollWaker,
                   pollResult, sawDone, nReady, sinceReady, invoked,
                   futureReady, polled, delayResult, futureResult, dropPc,
                   uaf, nInits, handle, suspended, resumes, registered,
                   strong>>

\* The OS can still deliver an expiry of timer i.
Live(i) == timers[i].os.armed /\ timers[i].nCallbacks < MaxExpiries

\* Delay::poll as a whole: arm on the first poll, register the waker, check
\* the flag.
RacePoll(i) ==
    LET t     == timers[i]
        armed == IF t.active THEN t.os ELSE init_delay(backend, t.delay)
    IN  /\ ~t.done
        /\ timers' = [timers EXCEPT ![i] =
                        [t EXCEPT !.active = TRUE,
                                  !.os = armed,
                                  !.woken = FALSE,
                                  !.done = t.state_done]]
        /\ order' = IF t.state_done THEN Append(order, i) ELSE order
        /\ UNCHANGED raceUnchanged

\* The timer of Delay i is due: the OS starts its callback.
RaceExpire(i) ==
    LET t == timers[i]
    IN  /\ Live(i)
        /\ t.os.due = 0
        /\ t.cbPc = "idle"
        /\ timers' = [timers EXCEPT ![i] =
                        [t EXCEPT !.cbPc = "running",
                                  !.os = IF t.os.repeat > 0
                                         THEN [t.os EXCEPT !.due = t.os.repeat]
                                         ELSE Disarmed]]
        /\ UNCHANGED <<order, raceUnchanged>>

\* handler / timer_callback as a whole: set_done(true); wake.wake().
RaceCallback(i) ==
    LET t == timers[i]
    IN  /\ t.cbPc = "running"
        /\ timers' = [timers EXCEPT ![i] =
                        [t EXCEPT !.cbPc = "idle",
                                  !.state_done = TRUE,
                                  !.nCallbacks = t.nCallbacks + 1,
                                  !.woken = TRUE]]
        /\ UNCHANGED <<order, raceUnchanged>>

Min(S) == CHOOSE x \in S : \A y \in S : x <= y

\* Nothing is left to run at this moment: every Delay has been polled once,
\* no callback is due or running, no woken task is waiting for its poll.
Quiet ==
    \A i \in Delays :
        /\ timers[i].active
        /\ timers[i].cbPc = "idle"
        /\ timers[i].done \/ ~timers[i].woken
        /\ Live(i) => timers[i].os.due > 0

\* Time passes until the next timer is due.
RaceAdvance ==
    /\ Quiet
    /\ \E i \in Delays : Live(i)
    /\ LET step == Min({timers[i].os.due : i \in {j \in Delays : Live(j)}})
       IN  timers' = [i \in Delays |->
                        IF Live(i)
                        THEN [timers[i] EXCEPT !.os.due = @ - step]
                        ELSE timers[i]]
    /\ UNCHANGED <<order, raceUnchanged>>

RaceNext ==
    \/ \E i \in Delays : RacePoll(i)
    \/ \E i \in Delays : RaceExpire(i)
    \/ \E i \in Delays : RaceCallback(i)
    \/ RaceAdvance

RaceSpec == RaceInit /\ [][RaceNext]_vars

(***************************************************************************)
(* tests::intervals / examples/test.rs: a Delay (timers[1]) and an         *)
(* Interval (timers[2]) in one select! loop.  order records what the loop  *)
(* saw: a 2 for each tick (total += 1), a 1 for the Delay that ends it.    *)
(* Scheduling is prompt, as above.                                         *)
(***************************************************************************)
\* most ticks a loop of the cases below may count
MaxTicks == 10

\* Interval::new(p) and Delay::new(d): p > 0 does not divide d.  The pair of
\* the test is 99 ms against 1 s.
SelectPeriods == {150, 1000000, 1500000, 99000000}
SelectDelays  == {400, 2600000, 1000000000}
SelectCases ==
    {c \in SelectPeriods \X SelectDelays :
        c[2] % c[1] # 0 /\ c[2] \div c[1] <= MaxTicks}

SelectInit ==
    /\ backend \in Backends
    /\ kind = "interval"
    /\ duration = 0
    /\ Unpolled
    /\ \E c \in SelectCases :
          timers = <<NewDelay(c[2]), NewDelay(c[1])>>
    /\ order = <<>>

\* The loop has taken the branch of the Delay: break.
LoopEnded == Len(order) > 0 /\ order[Len(order)] = 1

\* timeout.poll(): arm on the first poll, register the waker, check the flag.
SelectPollDelay(ts) ==
    LET t == ts[1]
    IN  [ts EXCEPT ![1] =
            [t EXCEPT !.active = TRUE,
                      !.os = IF t.active THEN t.os
                             ELSE init_delay(backend, t.delay),
                      !.done = t.state_done]]

\* stream.next().poll(): Interval::poll_next arms on the first poll,
\* registers the waker, and on a set flag clears it and yields a tick.
SelectPollInterval(ts) ==
    LET t == ts[2]
    IN  [ts EXCEPT ![2] =
            [t EXCEPT !.active = TRUE,
                      !.os = IF t.active THEN t.os
                             ELSE init_interval(backend, t.delay),
                      !.state_done = FALSE]]

\* One pass of the loop: select! polls its two futures in an order of its
\* choosing and takes the first that is ready; the other is polled only if
\* the first was Pending.  After a tick the loop goes round again; when both
\* are Pending the task waits for a waker.
SelectPoll(first) ==
    LET delayReady == timers[1].state_done
        tick       == timers[2].state_done
        asleep(ts) == [i \in DOMAIN ts |-> [ts[i] EXCEPT !.woken = FALSE]]
        again(ts)  == [ts EXCEPT ![2].woken = TRUE]
    IN  /\ ~LoopEnded
        /\ \E i \in DOMAIN timers : timers[i].woken
        /\ IF first = 1
           THEN IF delayReady
                THEN /\ timers' = SelectPollDelay(timers)
                     /\ order' = Append(order, 1)
                ELSE LET ts == SelectPollInterval(SelectPollDelay(timers))
                     IN  /\ timers' = IF tick THEN again(asleep(ts))
                                               ELSE asleep(ts)
                         /\ order' = IF tick THEN Append(order, 2) ELSE order
           ELSE IF tick
                THEN /\ timers' = again(SelectPollInterval(timers))
                     /\ order' = Append(order, 2)
                ELSE /\ timers' = asleep(SelectPollDelay(SelectPollInterval(timers)))
                     /\ order' = IF delayReady THEN Append(order, 1) ELSE order
        /\ UNCHANGED raceUnchanged

\* The timer of i is due: the OS starts its callback and re-arms a
\* repeating timer.
SelectExpire(i) ==
    LET t == timers[i]
    IN  /\ ~LoopEnded
        /\ t.os.armed
        /\ t.os.due = 0
        /\ t.cbPc = "idle"
        /\ timers' = [timers EXCEPT ![i] =
                        [t EXCEPT !.cbPc = "running",
                                  !.os = IF t.os.repeat > 0
                                         THEN [t.os EXCEPT !.due = t.os.repeat]
                                         ELSE Disarmed]]
        /\ UNCHANGED <<order, raceUnchanged>>

\* Nothing is left to run at this moment.
SelectQuiet ==
    /\ \A i \in DOMAIN timers :
        /\ timers[i].active
        /\ timers[i].cbPc = "idle"
        /\ ~timers[i].woken
        /\ timers[i].os.armed => timers[i].os.due > 0

\* Time passes until the next timer is due.
SelectAdvance ==
    /\ ~LoopEnded
    /\ SelectQuiet
    /\ \E i \in DOMAIN timers : timers[i].os.armed
    /\ LET step == Min({timers[i].os.due :
                          i \in {j \in DOMAIN timers : timers[j].os.armed}})
       IN  timers' = [i \in DOMAIN timers |->
                        IF timers[i].os.armed
                        THEN [timers[i] EXCEPT !.os.due = @ - step]
                        ELSE timers[i]]
    /\ UNCHANGED <<order, raceUnchanged>>

SelectNext ==
    \/ \E first \in 1..2 : SelectPoll(first)
    \/ \E i \in 1..2 : SelectExpire(i)
    \/ \E i \in 1..2 : RaceCallback(i)
    \/ SelectAdvance

SelectSpec == SelectInit /\ [][SelectNext]_vars

(***************************************************************************)
(* Claims.                                                                 *)
(***************************************************************************)
DelayReturnedReady == kind = "delay" /\ pollPc = "idle" /\ pollResult = "Ready"

\* C1: a Delay of any duration d >= 0, on every backend, that is polled and
\* re-polled whenever its waker fires eventually returns Ready from poll
\* (unless its owner drops it first), and every poll after the first Ready
\* returns Ready as well.
C1_DelayEventuallyReady ==
    /\ (kind = "delay") => <>(DelayReturnedReady \/ dropPc # "live")
    /\ [][(kind = "delay" /\ done /\ pollPc = "check")
            => pollResult' = "Ready"]_vars

\* The callback has started to run (it is past its entry, or has run before).
CallbackHasRun == cbPc \in {"running", "wake"} \/ nCallbacks > 0

\* C2: Delay::poll never returns Ready before the expiry callback of that
\* Delay has run, and the callback never runs before the timer has been
\* armed and the requested duration has elapsed since the arming poll; no
\* poll returns Ready while the Delay is unarmed or less than the duration
\* has elapsed.
C2_NoEarlyReady ==
    (kind = "delay") =>
        /\ done => nCallbacks > 0
        /\ CallbackHasRun => (active /\ elapsed >= duration)
        /\ done => (active /\ elapsed >= duration)

\* The last poll returned Pending and the task is parked on its waker.
Parked == pollPc = "idle" /\ pollResult = "Pending" /\ dropPc = "live"

\* C3: no lost wakeup.  In every interleaving of a poll (arm, register,
\* check) with the callback (set the flag, invoke the waker): once the flag
\* is set while the task is parked on a Pending poll, the waker that poll
\* registered has been invoked or the callback is about to invoke it; a
\* poll whose registration came after the callback's wake sees the flag and
\* does not return Pending.
C3_NoLostWakeup ==
    (Parked /\ state_done) =>
        \/ pollWaker \in invoked
        \/ cbPc = "wake" /\ wake = pollWaker

C3_Witness ==
    /\ Parked
    /\ state_done
    /\ pollWaker \in invoked
    /\ cbPc = "idle"

\* C4: once the Timer is dropped and the TimerState released, no callback
\* reads or writes the TimerState, and no invocation is in flight or still
\* to run at the moment of the release, on every backend.
C4_NoCallbackAfterDrop ==
    /\ ~uaf
    /\ dropPc = "freed" => cbPc = "idle"

\* C5: no Interval tick is observed twice.  The polls that returned
\* Ready(Some(_)) never outnumber the callbacks that have run, and after a
\* Ready poll the flag stays clear, so the next poll returns Pending, until
\* another callback runs.
C5_NoTickTwice ==
    (kind = "interval") =>
        /\ nReady <= nCallbacks
        /\ (sinceReady = 0) => (~state_done /\ pollPc # "reset")

C5_Witness ==
    /\ kind = "interval"
    /\ nReady = 1
    /\ nCallbacks = 1
    /\ sinceReady = 0
    /\ pollPc = "idle"
    /\ pollResult = "Pending"

\* C6: an Interval never stops ticking.  For every period the constructor
\* accepts, while the Interval is alive the OS keeps expiring (here: up to
\* MaxExpiries), each expiry is followed by a poll that returns
\* Ready(Some(_)), and poll_next never returns Ready(None).
C6_IntervalKeepsTicking ==
    /\ (kind = "interval") => <>(dropPc # "live" \/ nCallbacks = MaxExpiries)
    /\ \A n \in 0..MaxExpiries :
          [](((kind = "interval") /\ nReady = n /\ state_done) =>
                <>(nReady > n \/ dropPc # "live"))
    /\ [](kind = "interval" => pollResult \in {"none", "Pending", "Ready"})

\* C7: Interval::is_terminated returns false in every reachable state:
\* before the first poll, while armed, and after any number of ticks.
C7_IntervalNeverTerminated ==
    (kind = "interval") => ~Interval_is_terminated

C7_Witness ==
    /\ kind = "interval"
    /\ active
    /\ nReady = MaxExpiries

\* A poll of the Timeout has returned.
TimeoutReturned == kind = "timeout" /\ pollPc = "idle" /\ pollResult # "none"

\* C8: every poll of a Timeout polls the internal Delay first.  If the
\* Delay is Ready the poll returns Ready(Err(TimeoutError)) and the wrapped
\* future is not polled on that poll, even when it is ready too; otherwise
\* the wrapped future is polled exactly once and its result is returned
\* unchanged: Pending as Pending, Ready(v) as Ready(Ok(v)).
C8_TimeoutPollOrder ==
    /\ (kind = "timeout" /\ pollPc = "future") =>
            (polled = <<"delay">> /\ delayResult = "Pending")
    /\ TimeoutReturned =>
        /\ polled # <<>> /\ polled[1] = "delay"
        /\ delayResult = "Ready" =>
                /\ pollResult = "Err"
                /\ polled = <<"delay">>
                /\ futureResult = "none"
        /\ delayResult = "Pending" =>
                /\ polled = <<"delay", "future">>
                /\ futureResult \in {"Pending", "Ready"}
                /\ pollResult = IF futureResult = "Ready" THEN "Ok" ELSE "Pending"
        /\ delayResult \in {"Ready", "Pending"}

\* The tie: the Delay and the wrapped future are both ready, timeout wins.
C8_Witness ==
    /\ TimeoutReturned
    /\ futureReady
    /\ pollResult = "Err"

\* C9: a Timeout of duration 0 around a future that never completes, polled
\* and re-polled on wake, eventually resolves to Err(TimeoutError) on every
\* backend (unless its owner drops it first).
C9_ZeroTimeoutResolves ==
    (kind = "timeout" /\ duration = 0) =>
        <>(pollResult = "Err" \/ futureReady \/ dropPc # "live")

\* C10: Delays expire in order of their durations.  Of Delays with distinct
\* durations first polled at the same time, one with a shorter duration
\* returns Ready before any with a longer duration: whenever a Delay has
\* returned Ready, every Delay with a shorter duration has already done so,
\* and the completions are observed in increasing order of duration.
C10_ShorterReadyFirst ==
    /\ \A i, j \in DOMAIN timers :
          (timers[i].delay < timers[j].delay /\ timers[j].done)
              => timers[i].done
    /\ \A a, b \in 1..Len(order) :
          a < b => timers[order[a]].delay < timers[order[b]].delay

\* C11: an Interval with period p and a Delay with duration d, first polled
\* together in one select loop, p not dividing d: when the Delay resolves
\* and ends the loop, the loop has counted exactly floor(d/p) ticks.
C11_TicksBeforeDeadline ==
    LoopEnded => Len(order) - 1 = timers[1].delay \div timers[2].delay

\* No poll has reached the arming step yet.
BeforeFirstArm == pollResult = "none" /\ pollPc \in {"idle", "arm"}

\* C12: a Delay or Interval arms its native timer on its first poll and only
\* then.  is_active is false from construction until the first poll, true
\* from the arming step of the first poll onward and never false again, and
\* init_delay / init_interval is called exactly once, by that poll.
C12_ArmedOnFirstPollOnly ==
    /\ [](BeforeFirstArm => (~active /\ nInits = 0))
    /\ [](~BeforeFirstArm => (active /\ nInits = 1))
    /\ [][active => active']_vars

\* A later poll has passed the arming step.
C12_Witness ==
    /\ pollPc = "register"
    /\ pollResult = "Pending"
    /\ active
    /\ nInits = 1

\* The Delay / Interval has been constructed and never polled.
NeverPolled == pollPc = "idle" /\ pollResult = "none"

C14_TerminatedFlag ==
    /\ [](kind = "delay" => (Delay_is_terminated <=> pollResult = "Ready"))
    /\ [](kind \in {"delay", "timeout"} => (Delay_is_terminated => state_done))
    /\ [][(~done /\ done') =>
            (pollPc = "check" /\ state_done /\ pollResult' \in {"Ready", "Err"})]_vars
    /\ [][(kind = "delay" /\ pollPc = "check" /\ pollPc' = "idle" /\ state_done)
            => (done' /\ pollResult' = "Ready")]_vars
    /\ [][done => done']_vars
    /\ [][(kind \in {"delay", "timeout"} /\ state_done) => state_done']_vars

\* A terminated Delay is polled again.
C14_Witness ==
    /\ kind = "delay"
    /\ Delay_is_terminated
    /\ state_done
    /\ pollPc = "check"

\* C15: Interval::poll_next consumes the expired flag in one atomic
\* read-and-clear step: no callback writes the flag between the poll's read
\* of it and the poll's clearing of it, so that an expiry after the read is
\* still seen by the next poll.
C15_AtomicTakeAndReset ==
    [][(kind = "interval" /\ pollPc = "reset") => nCallbacks' = nCallbacks]_vars

\* C16: the ticks of an Interval are not queued; the cell keeps one boolean.
\* Whatever number of expiries came before it, a poll that finds the flag
\* set returns exactly one tick and leaves the flag clear, and a poll with
\* no expiry since the last tick returns Pending.
C16_TicksNotQueued ==
    /\ [](state_done \in BOOLEAN)
    /\ [][(kind = "interval" /\ pollPc = "reset" /\ pollPc' = "idle") =>
            /\ pollResult' = "Ready"
            /\ nReady' = nReady + 1
            /\ ~state_done'
            /\ sinceReady' = 0]_vars
    /\ [][(kind = "interval" /\ pollPc = "check" /\ pollPc' # "check"
             /\ sinceReady = 0) =>
            /\ pollPc' = "idle"
            /\ pollResult' = "Pending"
            /\ nReady' = nReady]_vars

\* Two expiries, then a poll that returned one tick, then a poll that
\* returned Pending.
C16_Witness ==
    /\ kind = "interval"
    /\ nCallbacks = 2
    /\ nReady = 1
    /\ sinceReady = 0
    /\ pollPc = "idle"
    /\ pollResult = "Pending"

\* A poll has registered its waker and no later poll has reached its own
\* registration.
Registered ==
    \/ pollPc \in {"check", "reset", "future"}
    \/ pollPc = "idle" /\ pollResult # "none"

\* C17: the waker slot holds at most one capability, the one registered by
\* the most recent poll.  A registration replaces what the slot held, only a
\* registration changes the slot, and a callback that runs after several
\* polls registered wakers invokes the one registered last and none of the
\* earlier ones.
C17_LatestWakerOnly ==
    /\ [](wake \in Wakers \cup {NoWaker})
    /\ [](Registered => wake = pollWaker)
    /\ [](wake = NoWaker <=> registered = {})
    /\ [][wake' # wake => (pollPc = "register" /\ wake' = pollWaker)]_vars
    /\ [][(cbPc = "wake" /\ cbPc' = "idle" /\ dropPc # "freed" /\ wake # NoWaker)
            => (invoked' = invoked \cup {wake})]_vars
    /\ [][invoked' \subseteq invoked \cup {wake}]_vars

\* Two wakers were registered, one after the other, and the one callback
\* that ran invoked the later one only.
C17_Witness ==
    /\ registered = Wakers
    /\ wake = 2
    /\ invoked = {2}
    /\ nCallbacks = 1
    /\ cbPc = "idle"

\* C18: the drop of a Windows timer disarms it (SetThreadpoolTimerEx with a
\* null due time), then waits until the callback in flight has returned,
\* with the pending ones cancelled, then closes it, in that order; after the
\* wait has returned no callback starts or runs, and none touches the cell
\* after its release.
C18_WindowsDropOrder ==
    (backend = "windows") =>
        /\ dropPc = "wait" => (~os.armed /\ handle = "open")
        /\ dropPc = "close" => (~os.armed /\ cbPc = "idle" /\ handle = "open")
        /\ dropPc \in {"cell", "freed"} =>
                (~os.armed /\ cbPc = "idle" /\ handle = "closed")
        /\ ~uaf

\* An armed Windows timer whose callback has run is dropped and closed.
C18_Witness ==
    /\ backend = "windows"
    /\ active
    /\ nCallbacks = 1
    /\ dropPc = "cell"
    /\ handle = "closed"

\* C19: a macOS dispatch source is created suspended and is resumed exactly
\* once before it is released: by the one arming call if it is ever armed,
\* otherwise by drop, right before dispatch_release.  It is never released
\* while suspended and never resumed twice, and its handler and context are
\* installed (by NativeTimer::new) before the first resume.
C19_ResumedOnceBeforeRelease ==
    (backend = "macos") =>
        /\ resumes <= 1
        /\ suspended <=> resumes = 0
        /\ active => resumes = 1
        /\ (~active /\ dropPc \in {"live", "resume"}) => suspended
        /\ dropPc = "release" => (~suspended /\ resumes = 1 /\ handle = "open")
        /\ handle = "closed" => (~suspended /\ resumes = 1)
        /\ resumes > 0 => handle # "none"

\* A source that was never armed has been resumed by drop and released.
C19_Witness ==
    /\ backend = "macos"
    /\ ~active
    /\ resumes = 1
    /\ handle = "closed"

\* C20: arming an Interval hands the OS the same duration as first expiry
\* and as repeat period, on every backend: for every period p > 0 the
\* repeat period the OS holds after init_interval, taken back to
\* nanoseconds, equals p (and so is not zero), as does the first expiry.
\* (For p = 0 every backend hands over a repeat of 0.)
C20_RepeatEqualsPeriod ==
    [][(kind = "interval" /\ duration > 0 /\ pollPc = "arm" /\ ~active
          /\ pollPc' = "register") =>
            /\ os'.armed
            /\ os'.repeat = duration
            /\ os'.repeat # 0
            /\ os'.due = os'.repeat]_vars

\* C21: the deadline of a Timeout is measured from its first poll, not from
\* the call of timeout().  The Delay made by timeout() stays unarmed, and no
\* expiry is under way, until Timeout::poll first polls it; the Timeout does
\* not resolve to Err(TimeoutError) before the duration has elapsed since
\* that arming; the Delay is armed once and later polls do not restart it.
C21_DeadlineFromFirstPoll ==
    /\ []((kind = "timeout" /\ BeforeFirstArm) =>
            (~os.armed /\ cbPc = "idle" /\ nCallbacks = 0))
    /\ []((kind = "timeout" /\ pollResult = "Err") =>
            (active /\ elapsed >= duration))
    /\ []((kind = "timeout") => nInits <= 1)
    /\ [][(kind = "timeout" /\ active) => elapsed' >= elapsed]_vars

\* C22: when a Timer is dropped, the destruction of the backend (the delete,
\* close or release of the OS timer) has returned before the owning
\* reference to the cell is released; the cell is never released first.  The
\* backend holds a raw pointer only, the strong count is 1 from Timer::new
\* on, and so the step after the backend's destruction frees the cell.
C22_BackendDestroyedBeforeCell ==
    /\ [](dropPc \notin {"freed", "kept"} => strong = 1)
    /\ [](dropPc = "freed" <=> strong = 0)
    /\ [](dropPc # "kept")
    /\ [](handle = "open" => dropPc \notin {"cell", "freed"})
    /\ [](dropPc \in {"cell", "freed"} => handle = "closed")
    /\ [][(dropPc' = "freed" /\ dropPc # "freed") =>
            (dropPc = "cell" /\ handle = "closed")]_vars
    /\ [][(dropPc = "cell" /\ dropPc' # "cell") => dropPc' = "freed"]_vars

\* An armed Timer has been dropped: backend destroyed, then the cell freed.
C22_Witness ==
    /\ active
    /\ handle = "closed"
    /\ dropPc = "freed"
    /\ strong = 0

=============================================================================
